---- MODULE Spec2Model ----
(***************************************************************************)
(* Model of the age calculator of src/app/page.tsx: the pure functions     *)
(* calculateAge and generateMilestones, and the Page component that calls  *)
(* calculateAge through useMemo on its two date inputs.                     *)
(*                                                                         *)
(* Time.  A JavaScript Date holds milliseconds since the epoch.  Every     *)
(* input string modelled here denotes a whole second, so an instant is     *)
(* kept in SECONDS since the epoch (the values stay inside TLC's 32-bit    *)
(* integers) and Math.floor(diffMs / 1000) is the difference of two such   *)
(* instants.                                                               *)
(*                                                                         *)
(* Time zone.  new Date("YYYY-MM-DD") is midnight UTC, while getFullYear,  *)
(* getMonth, getDate, getHours and new Date(y, m, d) work in the local     *)
(* zone of the machine.  The zone is an input of the environment: a named  *)
(* zone of the tz database, whose offset from UTC need not be whole hours  *)
(* and changes with daylight saving time, so that a local wall-clock time  *)
(* can be skipped or repeated.                                             *)
(***************************************************************************)
EXTENDS Integers, Sequences, FiniteSets, TLC

VARIABLES
    tz,             \* the local zone of the machine, a name of the tz database
    birthDate,      \* Page: useState("") , the birth-date input's value
    referenceDate,  \* Page: useState(today), the reference-date input's value
    memoDeps,       \* Page: the dependency list useMemo last computed for
    memoValue,      \* Page: the { snapshot, error } useMemo holds
    callArgs,       \* one call of calculateAge: <<birthDateStr, referenceDateStr>>
    callResult,     \* its outcome, Pending before the call
    metrics,        \* one call of generateMilestones: its argument
    milestones      \* its result, <<>> before the call

vars == <<tz, birthDate, referenceDate, memoDeps, memoValue,
          callArgs, callResult, metrics, milestones>>

----------------------------------------------------------------------------
(* Bounds of the input sets.                                               *)

\* how many of YearChoices the date strings range over
NumYears == 4
\* how many of DayChoices the date strings range over
NumDays == 5
\* how many of TimeChoices the "T..Z" suffix of a date-time string ranges over
NumTimes == 2
\* how many of PageYearChoices the page's date inputs range over
NumPageYears == 2
\* the elapsed-day counts fed to generateMilestones: k * DayStep, k in 0..NumDaySteps
DayStep == 400
NumDaySteps == 55

YearChoices == <<1972, 2000, 2001, 2024, 1999, 2023>>
MonthChoices == {1, 2, 3, 5, 12}
DayChoices == <<1, 28, 29, 31, 30, 15, 2>>
\* seconds after midnight UTC: none (the date-only form), T21:30:59Z,
\* T00:00:59Z, T23:59:59Z, T01:00:00Z
TimeChoices == <<0, 77459, 59, 86399, 3600>>
PageYearChoices == <<2000, 2001, 2024, 1972>>
PageMonthChoices == {2, 3, 12}
\* The zones of the machine: UTC; a zone half an hour off the whole hours,
\* without daylight saving time; a zone east of UTC whose clocks change at
\* 03:00 / 04:00 local; and a zone west of UTC whose clocks changed at local
\* midnight (until 2019), so that on the first day of its daylight saving
\* time the day begins at 01:00.
TimeZones == {"UTC", "Asia/Kolkata", "Europe/Helsinki", "America/Sao_Paulo"}

Min(a, b) == IF a < b THEN a ELSE b

----------------------------------------------------------------------------
(* The calendar of the JavaScript Date object (proleptic Gregorian).       *)

SecPerDay == 86400

IsLeapYear(y) == (y % 4 = 0 /\ y % 100 # 0) \/ y % 400 = 0

\* month is 1..12
DaysInMonth(y, month) ==
    IF month = 2 THEN (IF IsLeapYear(y) THEN 29 ELSE 28)
    ELSE IF month \in {4, 6, 9, 11} THEN 30 ELSE 31

\* Days from 1970-01-01 to the civil date y-m-d (m in 1..12, d in 1..31).
DaysFromCivil(y, m, d) ==
    LET yy  == IF m <= 2 THEN y - 1 ELSE y
        era == yy \div 400
        yoe == yy - era * 400
        mp  == IF m > 2 THEN m - 3 ELSE m + 9
        doy == (153 * mp + 2) \div 5 + d - 1
        doe == yoe * 365 + yoe \div 4 - yoe \div 100 + doy
    IN  era * 146097 + doe - 719468

\* The civil date of day number z: [year, month (1..12), day].
CivilFromDays(z) ==
    LET zz  == z + 719468
        era == zz \div 146097
        doe == zz - era * 146097
        yoe == (doe - doe \div 1460 + doe \div 36524 - doe \div 146096) \div 365
        doy == doe - (365 * yoe + yoe \div 4 - yoe \div 100)
        mp  == (5 * doy + 2) \div 153
        d   == doy - (153 * mp + 2) \div 5 + 1
        m   == IF mp < 10 THEN mp + 3 ELSE mp - 9
        y   == yoe + era * 400
    IN  [year |-> IF m <= 2 THEN y + 1 ELSE y, month |-> m, day |-> d]

\* A string handed to new Date(...):
\*   EmptyString          ""  (an input left empty)
\*   NotADate             text that no parser reads as a date
\*   DateString(y,m,d,s)  "YYYY-MM-DD" when s = 0, else "YYYY-MM-DDTHH:MM:SSZ",
\*                        s the seconds after midnight UTC
EmptyString == [kind |-> "empty"]
NotADate == [kind |-> "text"]
DateString(y, m, d, s) == [kind |-> "date", y |-> y, m |-> m, d |-> d, sec |-> s]

\* A Date object is its time value: NaN (Invalid Date) or seconds since the epoch.
NaN == [valid |-> FALSE]
TimeValue(t) == [valid |-> TRUE, time |-> t]

\* new Date(str): the date-only and the Z forms are read as UTC; a month
\* outside 1..12 or a day outside 1..31 gives Invalid Date.  (A day of 29..31
\* past the end of its month is no date of the calendar; what new Date makes
\* of it differs between engines - V8 rolls it over into the next month, as
\* here - and no string of the input sets below has one.)
DateParse(str) ==
    IF str.kind # "date" THEN NaN
    ELSE IF str.m \notin 1..12 THEN NaN
    ELSE IF str.d \notin 1..31 THEN NaN
    ELSE TimeValue(DaysFromCivil(str.y, str.m, str.d) * SecPerDay + str.sec)

\* Number.isNaN(date.getTime())
NumberIsNaN(date) == ~date.valid

\* The changes of a zone's offset from UTC between 1970 and 2038, as the tz
\* database has them, in order of time: <<instant, offset in seconds east of
\* UTC from that instant on>>.
HelsinkiTransitions ==
    << <<354672000, 10800>>, <<370396800, 7200>>, <<386121600, 10800>>,
       <<401846400, 7200>>, <<417574800, 10800>>, <<433299600, 7200>>,
       <<449024400, 10800>>, <<465354000, 7200>>, <<481078800, 10800>>,
       <<496803600, 7200>>, <<512528400, 10800>>, <<528253200, 7200>>,
       <<543978000, 10800>>, <<559702800, 7200>>, <<575427600, 10800>>,
       <<591152400, 7200>>, <<606877200, 10800>>, <<622602000, 7200>>,
       <<638326800, 10800>>, <<654656400, 7200>>, <<670381200, 10800>>,
       <<686106000, 7200>>, <<701830800, 10800>>, <<717555600, 7200>>,
       <<733280400, 10800>>, <<749005200, 7200>>, <<764730000, 10800>>,
       <<780454800, 7200>>, <<796179600, 10800>>, <<811904400, 7200>>,
       <<828234000, 10800>>, <<846378000, 7200>>, <<859683600, 10800>>,
       <<877827600, 7200>>, <<891133200, 10800>>, <<909277200, 7200>>,
       <<922582800, 10800>>, <<941331600, 7200>>, <<954032400, 10800>>,
       <<972781200, 7200>>, <<985482000, 10800>>, <<1004230800, 7200>>,
       <<1017536400, 10800>>, <<1035680400, 7200>>, <<1048986000, 10800>>,
       <<1067130000, 7200>>, <<1080435600, 10800>>, <<1099184400, 7200>>,
       <<1111885200, 10800>>, <<1130634000, 7200>>, <<1143334800, 10800>>,
       <<1162083600, 7200>>, <<1174784400, 10800>>, <<1193533200, 7200>>,
       <<1206838800, 10800>>, <<1224982800, 7200>>, <<1238288400, 10800>>,
       <<1256432400, 7200>>, <<1269738000, 10800>>, <<1288486800, 7200>>,
       <<1301187600, 10800>>, <<1319936400, 7200>>, <<1332637200, 10800>>,
       <<1351386000, 7200>>, <<1364691600, 10800>>, <<1382835600, 7200>>,
       <<1396141200, 10800>>, <<1414285200, 7200>>, <<1427590800, 10800>>,
       <<1445734800, 7200>>, <<1459040400, 10800>>, <<1477789200, 7200>>,
       <<1490490000, 10800>>, <<1509238800, 7200>>, <<1521939600, 10800>>,
       <<1540688400, 7200>>, <<1553994000, 10800>>, <<1572138000, 7200>>,
       <<1585443600, 10800>>, <<1603587600, 7200>>, <<1616893200, 10800>>,
       <<1635642000, 7200>>, <<1648342800, 10800>>, <<1667091600, 7200>>,
       <<1679792400, 10800>>, <<1698541200, 7200>>, <<1711846800, 10800>>,
       <<1729990800, 7200>>, <<1743296400, 10800>>, <<1761440400, 7200>>,
       <<1774746000, 10800>>, <<1792890000, 7200>>, <<1806195600, 10800>>,
       <<1824944400, 7200>>, <<1837645200, 10800>>, <<1856394000, 7200>>,
       <<1869094800, 10800>>, <<1887843600, 7200>>, <<1901149200, 10800>>,
       <<1919293200, 7200>>, <<1932598800, 10800>>, <<1950742800, 7200>>,
       <<1964048400, 10800>>, <<1982797200, 7200>>, <<1995498000, 10800>>,
       <<2014246800, 7200>>, <<2026947600, 10800>>, <<2045696400, 7200>>,
       <<2058397200, 10800>>, <<2077146000, 7200>>, <<2090451600, 10800>>,
       <<2108595600, 7200>>, <<2121901200, 10800>>, <<2140045200, 7200>> >>

SaoPauloTransitions ==
    << <<499748400, -7200>>, <<511236000, -10800>>, <<530593200, -7200>>,
       <<540266400, -10800>>, <<562129200, -7200>>, <<571197600, -10800>>,
       <<592974000, -7200>>, <<602042400, -10800>>, <<624423600, -7200>>,
       <<634701600, -10800>>, <<656478000, -7200>>, <<666756000, -10800>>,
       <<687927600, -7200>>, <<697600800, -10800>>, <<719982000, -7200>>,
       <<728445600, -10800>>, <<750826800, -7200>>, <<761709600, -10800>>,
       <<782276400, -7200>>, <<793159200, -10800>>, <<813726000, -7200>>,
       <<824004000, -10800>>, <<844570800, -7200>>, <<856058400, -10800>>,
       <<876106800, -7200>>, <<888717600, -10800>>, <<908074800, -7200>>,
       <<919562400, -10800>>, <<938919600, -7200>>, <<951616800, -10800>>,
       <<970974000, -7200>>, <<982461600, -10800>>, <<1003028400, -7200>>,
       <<1013911200, -10800>>, <<1036292400, -7200>>, <<1045360800, -10800>>,
       <<1066532400, -7200>>, <<1076810400, -10800>>, <<1099364400, -7200>>,
       <<1108864800, -10800>>, <<1129431600, -7200>>, <<1140314400, -10800>>,
       <<1162695600, -7200>>, <<1172368800, -10800>>, <<1192330800, -7200>>,
       <<1203213600, -10800>>, <<1224385200, -7200>>, <<1234663200, -10800>>,
       <<1255834800, -7200>>, <<1266717600, -10800>>, <<1287284400, -7200>>,
       <<1298167200, -10800>>, <<1318734000, -7200>>, <<1330221600, -10800>>,
       <<1350788400, -7200>>, <<1361066400, -10800>>, <<1382238000, -7200>>,
       <<1392516000, -10800>>, <<1413687600, -7200>>, <<1424570400, -10800>>,
       <<1445137200, -7200>>, <<1456020000, -10800>>, <<1476586800, -7200>>,
       <<1487469600, -10800>>, <<1508036400, -7200>>, <<1518919200, -10800>>,
       <<1541300400, -7200>>, <<1550368800, -10800>> >>

\* The rules of a zone: its offset at the epoch and the changes after it.
ZoneRules(timeZone) ==
    CASE timeZone = "UTC" -> [initial |-> 0, transitions |-> <<>>]
      [] timeZone = "Asia/Kolkata" -> [initial |-> 19800, transitions |-> <<>>]
      [] timeZone = "Europe/Helsinki" ->
             [initial |-> 7200, transitions |-> HelsinkiTransitions]
      [] timeZone = "America/Sao_Paulo" ->
             [initial |-> -10800, transitions |-> SaoPauloTransitions]

\* The index in lo..hi of the last change at or before instant t, lo - 1
\* when there is none.
RECURSIVE LastTransition(_, _, _, _)
LastTransition(transitions, t, lo, hi) ==
    IF lo > hi THEN lo - 1
    ELSE IF transitions[(lo + hi) \div 2][1] <= t
         THEN LastTransition(transitions, t, (lo + hi) \div 2 + 1, hi)
         ELSE LastTransition(transitions, t, lo, (lo + hi) \div 2 - 1)

\* The offset of the zone in force at instant t, in seconds east of UTC.
OffsetOf(rules, i) == IF i = 0 THEN rules.initial ELSE rules.transitions[i][2]
OffsetAt(t, timeZone) ==
    OffsetOf(ZoneRules(timeZone),
             LastTransition(ZoneRules(timeZone).transitions, t, 1,
                            Len(ZoneRules(timeZone).transitions)))

\* The local wall clock of instant t, in seconds.
LocalTime(t, timeZone) == t + OffsetAt(t, timeZone)

\* The instant of a local wall-clock time (UTC(t) of ECMAScript): the
\* earlier instant when the clock shows the time twice; when the clock skips
\* the time, the time read with the offset in force before the skip, which
\* is an instant after it.  A zone changes its offset at most once in the
\* two days around a time.
InstantOfLocal(local, offsetBefore, offsetAfter, timeZone) ==
    IF LocalTime(local - offsetBefore, timeZone) = local THEN local - offsetBefore
    ELSE IF LocalTime(local - offsetAfter, timeZone) = local THEN local - offsetAfter
    ELSE local - offsetBefore
UTC(local, timeZone) ==
    InstantOfLocal(local, OffsetAt(local - SecPerDay, timeZone),
                   OffsetAt(local + SecPerDay, timeZone), timeZone)

getFullYear(t, timeZone) == CivilFromDays(LocalTime(t, timeZone) \div SecPerDay).year
\* 0..11, as JavaScript counts months
getMonth(t, timeZone) == CivilFromDays(LocalTime(t, timeZone) \div SecPerDay).month - 1
getDate(t, timeZone) == CivilFromDays(LocalTime(t, timeZone) \div SecPerDay).day
getHours(t, timeZone) == (LocalTime(t, timeZone) % SecPerDay) \div 3600

\* new Date(year, monthIndex, day).getTime(): the instant of local
\* midnight.  monthIndex is 0..11 here; a day of 0, or one past the month's
\* end, rolls over into the neighbouring month as MakeDay does.
NewLocalDate(year, monthIndex, day, timeZone) ==
    UTC((DaysFromCivil(year, monthIndex + 1, 1) + day - 1) * SecPerDay, timeZone)

----------------------------------------------------------------------------
(* calculateAge                                                            *)

InvalidDate == "Please provide valid dates."
InvalidRange == "Birth date must be before the reference date."

\* Validate with the range guard written >=: an equal pair is rejected.
Validate_RejectsEqual(birth, reference) ==
    IF NumberIsNaN(birth) \/ NumberIsNaN(reference) THEN InvalidDate
    ELSE IF birth.time >= reference.time THEN InvalidRange
    ELSE "ok"

\* The two guards at the head of calculateAge: the message thrown, or "ok".
Validate(birth, reference) ==
    IF NumberIsNaN(birth) \/ NumberIsNaN(reference) THEN InvalidDate
    ELSE IF birth.time > reference.time THEN InvalidRange
    ELSE "ok"

\* RawTotals with the minutes rounded (Math.round) instead of floored.
RawTotals_RoundedMinutes(diffSec) ==
    LET totalSeconds == diffSec
        totalMinutes == (totalSeconds + 30) \div 60
        totalHours   == totalMinutes \div 60
        totalDays    == totalHours \div 24
        weeks        == totalDays \div 7
    IN  [totalSeconds |-> totalSeconds, totalMinutes |-> totalMinutes,
         totalHours |-> totalHours, totalDays |-> totalDays, weeks |-> weeks]

\* The raw totals, each the floor of the one before it.  diffSec is
\* Math.floor(diffMs / 1000).
RawTotals(diffSec) ==
    LET totalSeconds == diffSec
        totalMinutes == totalSeconds \div 60
        totalHours   == totalMinutes \div 60
        totalDays    == totalHours \div 24
        weeks        == totalDays \div 7
    IN  [totalSeconds |-> totalSeconds, totalMinutes |-> totalMinutes,
         totalHours |-> totalHours, totalDays |-> totalDays, weeks |-> weeks]

\* previousMonth.getDate(): new Date(year, monthIndex, 0) is the last day of
\* the month before monthIndex.
PreviousMonthLength(reference, timeZone) ==
    getDate(NewLocalDate(getFullYear(reference, timeZone),
                         getMonth(reference, timeZone), 0, timeZone), timeZone)

\* CalendarDiff with the two borrows in the other order: the month borrow is
\* decided before the day borrow has lowered months.
CalendarDiff_MonthBorrowFirst(birth, reference, timeZone) ==
    LET years0  == getFullYear(reference, timeZone) - getFullYear(birth, timeZone)
        months0 == getMonth(reference, timeZone) - getMonth(birth, timeZone)
        days0   == getDate(reference, timeZone) - getDate(birth, timeZone)
        years1  == IF months0 < 0 THEN years0 - 1 ELSE years0
        months1 == IF months0 < 0 THEN months0 + 12 ELSE months0
        months2 == IF days0 < 0 THEN months1 - 1 ELSE months1
        days2   == IF days0 < 0
                   THEN days0 + PreviousMonthLength(reference, timeZone)
                   ELSE days0
    IN  [years |-> years1, months |-> months2, days |-> days2]

\* years / months / days with the two borrows.
CalendarDiff(birth, reference, timeZone) ==
    LET years0  == getFullYear(reference, timeZone) - getFullYear(birth, timeZone)
        months0 == getMonth(reference, timeZone) - getMonth(birth, timeZone)
        days0   == getDate(reference, timeZone) - getDate(birth, timeZone)
        months1 == IF days0 < 0 THEN months0 - 1 ELSE months0
        days1   == IF days0 < 0
                   THEN days0 + PreviousMonthLength(reference, timeZone)
                   ELSE days0
        years2  == IF months1 < 0 THEN years0 - 1 ELSE years0
        months2 == IF months1 < 0 THEN months1 + 12 ELSE months1
    IN  [years |-> years2, months |-> months2, days |-> days1]

\* NextBirthday without the move to the next year.
NextBirthday_NeverAdvanced(birth, reference, timeZone) ==
    NewLocalDate(getFullYear(reference, timeZone), getMonth(birth, timeZone),
                 getDate(birth, timeZone), timeZone)

\* NextBirthday that always takes the birthday of the next year.
NextBirthday_AlwaysNextYear(birth, reference, timeZone) ==
    NewLocalDate(getFullYear(reference, timeZone) + 1, getMonth(birth, timeZone),
                 getDate(birth, timeZone), timeZone)

\* NextBirthday with the comparison written <=: a candidate equal to the
\* reference is moved to the next year too.
NextBirthday_AdvanceOnEqual(birth, reference, timeZone) ==
    LET candidate == NewLocalDate(getFullYear(reference, timeZone),
                                  getMonth(birth, timeZone),
                                  getDate(birth, timeZone), timeZone)
    IN  IF candidate <= reference
        THEN NewLocalDate(getFullYear(reference, timeZone) + 1,
                          getMonth(birth, timeZone),
                          getDate(birth, timeZone), timeZone)
        ELSE candidate

\* The candidate built in the reference's year, moved to the next year when
\* it lies before the reference.
NextBirthday(birth, reference, timeZone) ==
    LET candidate == NewLocalDate(getFullYear(reference, timeZone),
                                  getMonth(birth, timeZone),
                                  getDate(birth, timeZone), timeZone)
    IN  IF candidate < reference
           \/ (candidate = reference /\ getHours(reference, timeZone) > 0)
        THEN NewLocalDate(getFullYear(reference, timeZone) + 1,
                          getMonth(birth, timeZone),
                          getDate(birth, timeZone), timeZone)
        ELSE candidate

\* Math.ceil(a / b) for b > 0
CeilDiv(a, b) == -((-a) \div b)

DaysUntilNextBirthday(nextBirthday, reference) ==
    CeilDiv(nextBirthday - reference, SecPerDay)

----------------------------------------------------------------------------
(* generateMilestones                                                      *)
(* A JavaScript number that need not be whole (a target, a value, an eta)  *)
(* is kept as an exact fraction [num, den], den > 0.                       *)

Rat(n, d) == [num |-> n, den |-> d]
RatGeq(a, b) == a.num * b.den >= b.num * a.den
RatSub(a, b) == [num |-> a.num * b.den - b.num * a.den, den |-> a.den * b.den]
RatMul(a, b) == [num |-> a.num * b.num, den |-> a.den * b.den]
\* Math.max(a, 0)
RatMax0(a) == IF a.num < 0 THEN Rat(0, 1) ELSE a
\* Math.ceil(a), as a fraction over 1
RatCeil(a) == Rat(CeilDiv(a.num, a.den), 1)

\* 365.25
DaysPerYear == Rat(1461, 4)

\* 1_000_000_000 / 115_200, in lowest terms
HeartbeatTarget == Rat(78125, 9)

blueprint ==
    << [label |-> "10,000 days on Earth", target |-> Rat(10000, 1), unit |-> "days",
        descriptor |-> "Celebrate a quintuple-digit day count."],
       [label |-> "1,000 weeks milestone", target |-> Rat(1000, 1), unit |-> "weeks",
        descriptor |-> "A millennium of weeks lived."],
       [label |-> "Half-century marker", target |-> Rat(50, 1), unit |-> "years",
        descriptor |-> "The golden jubilee of life experience."],
       [label |-> "One billion heartbeats (estimated)", target |-> HeartbeatTarget,
        unit |-> "days", descriptor |-> "Approximate based on 80 bpm average."],
       [label |-> "One gigasecond old", target |-> Rat(1000000000, 1), unit |-> "seconds",
        descriptor |-> "A billion seconds of stories."],
       [label |-> "20 million minutes", target |-> Rat(20000000, 1), unit |-> "minutes",
        descriptor |-> "Minutes that shaped your narrative."] >>

\* const value = ... : the metric the milestone's unit selects
MilestoneValue(milestone, m) ==
    IF milestone.unit = "days" THEN Rat(m.totalDays, 1)
    ELSE IF milestone.unit = "weeks" THEN Rat(m.totalDays \div 7, 1)
    ELSE IF milestone.unit = "years" THEN Rat(m.totalDays * DaysPerYear.den, DaysPerYear.num)
    ELSE IF milestone.unit = "minutes" THEN Rat(m.totalMinutes, 1)
    ELSE IF milestone.unit = "seconds" THEN Rat(m.totalSeconds, 1)
    ELSE Rat(0, 1)

\* MilestoneReached with the comparison turned round (value <= target).
MilestoneReached_Inverted(milestone, m) ==
    RatGeq(milestone.target, MilestoneValue(milestone, m))

\* MilestoneReached with the comparison written >: a value on its target is
\* not yet reached.
MilestoneReached_Strict(milestone, m) ==
    ~RatGeq(milestone.target, MilestoneValue(milestone, m))

\* if (value >= milestone.target)
MilestoneReached(milestone, m) == RatGeq(MilestoneValue(milestone, m), milestone.target)

\* MilestoneRemaining whose weeks branch subtracts the days, not the weeks.
MilestoneRemaining_WeeksInDays(milestone, m) ==
    IF milestone.unit = "days" THEN RatSub(milestone.target, Rat(m.totalDays, 1))
    ELSE IF milestone.unit = "weeks" THEN RatSub(milestone.target, Rat(m.totalDays, 1))
    ELSE IF milestone.unit = "years"
         THEN RatCeil(RatMul(RatSub(milestone.target, MilestoneValue(milestone, m)),
                             DaysPerYear))
    ELSE IF milestone.unit = "minutes" THEN RatSub(milestone.target, Rat(m.totalMinutes, 1))
    ELSE IF milestone.unit = "seconds" THEN RatSub(milestone.target, Rat(m.totalSeconds, 1))
    ELSE Rat(0, 1)

\* const remaining = ...
MilestoneRemaining(milestone, m) ==
    IF milestone.unit = "days" THEN RatSub(milestone.target, Rat(m.totalDays, 1))
    ELSE IF milestone.unit = "weeks" THEN RatSub(milestone.target, Rat(m.totalDays \div 7, 1))
    ELSE IF milestone.unit = "years"
         THEN RatCeil(RatMul(RatSub(milestone.target, MilestoneValue(milestone, m)),
                             DaysPerYear))
    ELSE IF milestone.unit = "minutes" THEN RatSub(milestone.target, Rat(m.totalMinutes, 1))
    ELSE IF milestone.unit = "seconds" THEN RatSub(milestone.target, Rat(m.totalSeconds, 1))
    ELSE Rat(0, 1)

\* The body of blueprint.map: the entry with its status, and its eta when
\* it is upcoming (a reached milestone has no eta field).
EvaluateMilestone(milestone, m) ==
    IF MilestoneReached(milestone, m)
    THEN [label |-> milestone.label, target |-> milestone.target, unit |-> milestone.unit,
          descriptor |-> milestone.descriptor, status |-> "reached"]
    ELSE [label |-> milestone.label, target |-> milestone.target, unit |-> milestone.unit,
          descriptor |-> milestone.descriptor, status |-> "upcoming",
          eta |-> RatMax0(MilestoneRemaining(milestone, m))]

generateMilestones(m) ==
    [i \in 1..Len(blueprint) |-> EvaluateMilestone(blueprint[i], m)]

\* The object literal calculateAge hands to generateMilestones.
MetricsOf(totals) ==
    [totalDays |-> totals.totalDays, totalHours |-> totals.totalHours,
     totalMinutes |-> totals.totalMinutes, totalSeconds |-> totals.totalSeconds]

\* The return statement: the snapshot of the values computed before it.
Snapshot(totals, diff, nextBirthday, reference) ==
    [years |-> diff.years, months |-> diff.months, days |-> diff.days,
     totalDays |-> totals.totalDays, totalHours |-> totals.totalHours,
     totalMinutes |-> totals.totalMinutes,
     totalSeconds |-> totals.totalSeconds, weeks |-> totals.weeks,
     nextBirthday |-> nextBirthday,
     daysUntilNextBirthday |-> DaysUntilNextBirthday(nextBirthday, reference),
     milestones |-> generateMilestones(MetricsOf(totals))]

\* calculateAge once both strings are parsed.
AgeOfDates(birth, reference, check, timeZone) ==
    IF check # "ok" THEN [outcome |-> "threw", message |-> check]
    ELSE [outcome |-> "returned",
          snapshot |-> Snapshot(RawTotals(reference.time - birth.time),
                                CalendarDiff(birth.time, reference.time, timeZone),
                                NextBirthday(birth.time, reference.time, timeZone),
                                reference.time)]

\* calculateAge(birthDateStr, referenceDateStr) on a machine whose zone is
\* timeZone: [outcome |-> "threw", message] when it throws, else
\* [outcome |-> "returned", snapshot].
calculateAge(birthDateStr, referenceDateStr, timeZone) ==
    AgeOfDates(DateParse(birthDateStr), DateParse(referenceDateStr),
               Validate(DateParse(birthDateStr), DateParse(referenceDateStr)),
               timeZone)

----------------------------------------------------------------------------
(* Page                                                                    *)

\* The function handed to useMemo: nothing while the birth date is empty,
\* else the snapshot, or the message of what calculateAge threw.
Null == [null |-> TRUE]

\* try { return { snapshot: calculateAge(...), error: null } }
\* catch (err) { return { snapshot: null, error: err.message } }
TryResult(res) ==
    IF res.outcome = "threw"
    THEN [snapshot |-> Null, error |-> [message |-> res.message]]
    ELSE [snapshot |-> res.snapshot, error |-> Null]

\* ComputeResult without the guard on an empty birth date: the empty string
\* goes to calculateAge like any other.
ComputeResult_NoPlaceholder(b, r, timeZone) ==
    TryResult(calculateAge(b, r, timeZone))

ComputeResult(b, r, timeZone) ==
    IF b = EmptyString THEN [snapshot |-> Null, error |-> Null]
    ELSE TryResult(calculateAge(b, r, timeZone))

\* DepsChanged for a dependency list of [birthDate] alone.
DepsChanged_BirthDateOnly(deps, prevDeps) == deps[1] # prevDeps[1]

\* Whether useMemo recomputes: some dependency of [birthDate, referenceDate]
\* differs from the one it last computed for.
DepsChanged(deps, prevDeps) == deps[1] # prevDeps[1] \/ deps[2] # prevDeps[2]

\* useMemo(fn, [birthDate, referenceDate]) on a render.
UseMemo(deps, prevDeps, prevValue, timeZone) ==
    IF DepsChanged(deps, prevDeps) THEN ComputeResult(deps[1], deps[2], timeZone)
    ELSE prevValue

----------------------------------------------------------------------------
(* The input sets.                                                         *)

Prefix(choices, n) == {choices[k] : k \in 1..Min(n, Len(choices))}

Years == Prefix(YearChoices, NumYears)
Days == Prefix(DayChoices, NumDays)
Times == Prefix(TimeChoices, NumTimes)
PageYears == Prefix(PageYearChoices, NumPageYears)

\* The strings calculateAge is called with: the dates of the calendar over
\* the chosen years, months and days, with and without a time of day, and
\* three strings that are no date ("", text, and a thirteenth month).
ValidDateStrings ==
    {DateString(y, m, d, s) : <<y, m, d, s>> \in
        {q \in Years \X MonthChoices \X Days \X Times : q[3] <= DaysInMonth(q[1], q[2])}}
InvalidStrings == {EmptyString, NotADate, DateString(2001, 13, 1, 0)}
\* The dates of the documented examples, and "2017-11-04T03:00:00Z" and
\* "2018-11-04T03:00:00Z": in America/Sao_Paulo the second is the first
\* instant of 4 November 2018, 01:00 on the clock (midnight was skipped).
ExampleStrings ==
    {DateString(1990, 5, 20, 0), DateString(2024, 5, 19, 0),
     DateString(2030, 1, 1, 0), DateString(2020, 1, 1, 0),
     DateString(2017, 11, 4, 10800), DateString(2018, 11, 4, 10800)}
\* Instants at which a modelled zone changes its clocks: America/Sao_Paulo
\* forward at midnight ("2000-10-08T03:00:00Z") and back to 23:00 of the day
\* before ("2001-02-18T02:00:00Z"), Europe/Helsinki forward
\* ("2001-03-25T01:00:00Z") and back ("2000-10-29T01:00:00Z").
ClockChangeStrings ==
    {DateString(2000, 10, 8, 10800), DateString(2001, 2, 18, 7200),
     DateString(2001, 3, 25, 3600), DateString(2000, 10, 29, 3600)}
CallStrings ==
    ValidDateStrings \cup ExampleStrings \cup ClockChangeStrings \cup InvalidStrings

\* What an <input type="date"> can hold: "" or a date of the calendar.
PageDates ==
    {DateString(y, m, d, 0) : <<y, m, d>> \in
        {q \in PageYears \X PageMonthChoices \X Days : q[3] <= DaysInMonth(q[1], q[2])}}
InputValues == PageDates \cup {EmptyString}

\* The elapsed seconds generateMilestones is checked on: whole days at
\* regular steps, the days around each target, and the seconds around the
\* two targets counted in seconds and minutes.
SecondCounts ==
    {k * DayStep * SecPerDay : k \in 0..NumDaySteps}
    \cup {d * SecPerDay : d \in {6999, 7000, 8000, 8680, 8681, 9999, 10000, 12000,
                                 18262, 18263}}
    \cup {999999999, 1000000000, 1199999999, 1200000000, 1200000059}

Pending == [outcome |-> "pending"]

----------------------------------------------------------------------------
(* Spec: the Page.  It mounts with an empty birth date and today's date as *)
(* the reference, and every change of an input re-renders it.              *)

PageIdle ==
    /\ callArgs = <<EmptyString, EmptyString>>
    /\ callResult = Pending
    /\ metrics = MetricsOf(RawTotals(0))
    /\ milestones = <<>>

Init ==
    /\ tz \in TimeZones
    /\ birthDate = EmptyString
    /\ referenceDate \in PageDates
    /\ memoDeps = <<birthDate, referenceDate>>
    /\ memoValue = ComputeResult(birthDate, referenceDate, tz)
    /\ PageIdle

\* The render that follows a state change.
Render(b, r) ==
    /\ memoValue' = UseMemo(<<b, r>>, memoDeps, memoValue, tz)
    /\ memoDeps' = <<b, r>>

\* onChange of the birth-date input: setBirthDate(event.target.value)
BirthDateChange(v) ==
    /\ birthDate' = v
    /\ Render(v, referenceDate)
    /\ UNCHANGED <<tz, referenceDate, callArgs, callResult, metrics, milestones>>

\* onChange of the reference-date input: setReferenceDate(event.target.value)
ReferenceDateChange(v) ==
    /\ referenceDate' = v
    /\ Render(birthDate, v)
    /\ UNCHANGED <<tz, birthDate, callArgs, callResult, metrics, milestones>>

Next ==
    \/ \E v \in InputValues : BirthDateChange(v)
    \/ \E v \in InputValues : ReferenceDateChange(v)

Spec == Init /\ [][Next]_vars

----------------------------------------------------------------------------
(* SpecCalc: one call of calculateAge on any pair of strings, in any zone. *)

PageUnmounted ==
    /\ birthDate = EmptyString
    /\ referenceDate = EmptyString
    /\ memoDeps = <<EmptyString, EmptyString>>
    /\ memoValue = [snapshot |-> Null, error |-> Null]

InitCalc ==
    /\ tz \in TimeZones
    /\ callArgs \in CallStrings \X CallStrings
    /\ callResult = Pending
    /\ metrics = MetricsOf(RawTotals(0))
    /\ milestones = <<>>
    /\ PageUnmounted

Call ==
    /\ callResult = Pending
    /\ callResult' = calculateAge(callArgs[1], callArgs[2], tz)
    /\ UNCHANGED <<tz, birthDate, referenceDate, memoDeps, memoValue,
                   callArgs, metrics, milestones>>

NextCalc == Call

SpecCalc == InitCalc /\ [][NextCalc]_vars

----------------------------------------------------------------------------
(* SpecMilestones: one call of generateMilestones on the metrics of any    *)
(* elapsed time.                                                           *)

InitMilestones ==
    /\ tz = "UTC"
    /\ metrics \in {MetricsOf(RawTotals(s)) : s \in SecondCounts}
    /\ milestones = <<>>
    /\ callArgs = <<EmptyString, EmptyString>>
    /\ callResult = Pending
    /\ PageUnmounted

Generate ==
    /\ milestones = <<>>
    /\ milestones' = generateMilestones(metrics)
    /\ UNCHANGED <<tz, birthDate, referenceDate, memoDeps, memoValue,
                   callArgs, callResult, metrics>>

NextMilestones == Generate

SpecMilestones == InitMilestones /\ [][NextMilestones]_vars

----------------------------------------------------------------------------
(* SpecTimeline: calculateAge for one birth date at a reference date, and  *)
(* then once more at a reference date that is not earlier.  callResult is  *)
(* the snapshot of the current reference date; after the second call,      *)
(* metrics and milestones hold what generateMilestones was given and gave  *)
(* in the first.                                                           *)

TimelineBirths ==
    {DateString(y, 2, d, 0) : <<y, d>> \in
        {q \in Years \X Days : q[2] <= DaysInMonth(q[1], 2)}}
\* 2005 lies between the gigasecond (31.7 years) and the 20 million minutes
\* (38 years) of a birth in 1972.
TimelineReferences ==
    {DateString(y, m, d, s) : <<y, m, d, s>> \in
        {q \in (Years \cup {2005}) \X {2, 12} \X Days \X Times :
            q[3] <= DaysInMonth(q[1], q[2])}}

InitTimeline ==
    /\ tz \in TimeZones
    /\ callArgs \in {a \in TimelineBirths \X TimelineReferences :
                        DateParse(a[1]).time <= DateParse(a[2]).time}
    /\ callResult = calculateAge(callArgs[1], callArgs[2], tz)
    /\ metrics = MetricsOf(RawTotals(0))
    /\ milestones = <<>>
    /\ PageUnmounted

\* The reference date moves on to r2 and the age is calculated again.
AdvanceReference(r2) ==
    /\ milestones = <<>>
    /\ DateParse(r2).time >= DateParse(callArgs[2]).time
    /\ callArgs' = <<callArgs[1], r2>>
    /\ callResult' = calculateAge(callArgs[1], r2, tz)
    /\ metrics' = MetricsOf(callResult.snapshot)
    /\ milestones' = callResult.snapshot.milestones
    /\ UNCHANGED <<tz, birthDate, referenceDate, memoDeps, memoValue>>

NextTimeline == \E r2 \in TimelineReferences : AdvanceReference(r2)

SpecTimeline == InitTimeline /\ [][NextTimeline]_vars

----------------------------------------------------------------------------
(* The claims about calculateAge, read on the finished call of SpecCalc.   *)

Returned == callResult.outcome = "returned"
Threw == callResult.outcome = "threw"
ArgBirth == DateParse(callArgs[1])
ArgReference == DateParse(callArgs[2])
\* both strings are dates of the calendar and birthDate <= referenceDate
ValidPair ==
    /\ ArgBirth.valid /\ ArgReference.valid
    /\ ArgBirth.time <= ArgReference.time
\* the local calendar date of an instant, as [year, month (1..12), day]
LocalDate(t) == CivilFromDays(LocalTime(t, tz) \div SecPerDay)
\* the month before the reference's month, and its length by the calendar
BorrowedMonthLength ==
    LET r == LocalDate(ArgReference.time)
    IN  IF r.month = 1 THEN DaysInMonth(r.year - 1, 12)
        ELSE DaysInMonth(r.year, r.month - 1)
DayBorrowFires == LocalDate(ArgReference.time).day < LocalDate(ArgBirth.time).day
MonthBorrowFires ==
    LocalDate(ArgReference.time).month - LocalDate(ArgBirth.time).month
        - (IF DayBorrowFires THEN 1 ELSE 0) < 0

\* C1: for every valid pair birthDate <= referenceDate, the days of the
\* snapshot are at least 0 and less than the length of the month before the
\* reference's month, also for a birth on the 29th, 30th or 31st.
C1_DaysWithinBorrowedMonth ==
    (Returned /\ ValidPair) =>
        /\ callResult.snapshot.days >= 0
        /\ callResult.snapshot.days < BorrowedMonthLength

\* C2: for every valid pair birthDate <= referenceDate, years >= 0 and
\* months is in 0..11, whichever of the two borrows fire.
C2_YearsMonthsInRange ==
    (Returned /\ ValidPair) =>
        /\ callResult.snapshot.years >= 0
        /\ callResult.snapshot.months \in 0..11

\* C2's case: a returned snapshot for which the day borrow and the month
\* borrow both fired.
C2_BothBorrowsWitness ==
    /\ Returned /\ ValidPair
    /\ DayBorrowFires /\ MonthBorrowFires
    /\ callResult.snapshot.months = 11

\* C3: the call throws exactly when a string is no valid date (the
\* invalid-date message, checked first) or birthDate is after referenceDate
\* (the invalid-range message); every valid pair with birthDate <=
\* referenceDate, the equal pair included, returns a snapshot, and no
\* snapshot has a negative elapsed time.
C3_FailsExactlyOnInvalidInput ==
    (callResult # Pending) =>
        /\ (~ArgBirth.valid \/ ~ArgReference.valid) =>
               (Threw /\ callResult.message = InvalidDate)
        /\ (ArgBirth.valid /\ ArgReference.valid /\ ArgBirth.time > ArgReference.time) =>
               (Threw /\ callResult.message = InvalidRange)
        /\ ValidPair =>
               (Returned /\ callResult.snapshot.totalSeconds >= 0
                         /\ callResult.snapshot.years >= 0)

\* C3's case: the call on birthDate = referenceDate has returned a snapshot.
C3_EqualDatesWitness ==
    /\ Returned
    /\ callArgs[1] = callArgs[2]

\* C4: in every snapshot the totals are a truncation chain: each is the
\* floor of the unit below, so totalSeconds >= totalMinutes*60 >=
\* totalHours*3600 >= totalDays*86400, weeks = floor(totalDays/7), all >= 0.
C4_TruncationChain ==
    Returned =>
        LET t == callResult.snapshot
        IN  /\ t.totalSeconds >= t.totalMinutes * 60
            /\ t.totalMinutes * 60 >= t.totalHours * 3600
            /\ t.totalHours * 3600 >= t.totalDays * 86400
            /\ t.totalSeconds - t.totalMinutes * 60 < 60
            /\ t.totalMinutes - t.totalHours * 60 \in 0..59
            /\ t.totalHours - t.totalDays * 24 \in 0..23
            /\ t.totalDays - t.weeks * 7 \in 0..6
            /\ t.totalSeconds >= 0 /\ t.totalMinutes >= 0 /\ t.totalHours >= 0
            /\ t.totalDays >= 0 /\ t.weeks >= 0
            /\ t.totalSeconds = ArgReference.time - ArgBirth.time

\* C4's case: a snapshot whose every unit leaves a remainder that the floor
\* drops.
C4_RemaindersWitness ==
    /\ Returned
    /\ callResult.snapshot.totalSeconds % 60 # 0
    /\ callResult.snapshot.totalMinutes % 60 # 0
    /\ callResult.snapshot.totalHours % 24 # 0
    /\ callResult.snapshot.totalDays % 7 # 0

\* C5: for every valid pair birthDate <= referenceDate, nextBirthday is at
\* or after the reference and daysUntilNextBirthday >= 0, whether the
\* candidate of the reference's year is kept or moved to the next year.
C5_NextBirthdayNotBeforeReference ==
    (Returned /\ ValidPair) =>
        /\ callResult.snapshot.nextBirthday >= ArgReference.time
        /\ callResult.snapshot.daysUntilNextBirthday >= 0

\* C5's case: the candidate lay before the reference and was moved to the
\* following year.
C5_AdvancedWitness ==
    /\ Returned /\ ValidPair
    /\ LocalDate(callResult.snapshot.nextBirthday).year
           = LocalDate(ArgReference.time).year + 1
    /\ callResult.snapshot.daysUntilNextBirthday > 0

\* t is the first instant of its local calendar day
IsStartOfLocalDay(t) == LocalDate(t - 1) # LocalDate(t)
\* the offsets of the machine's zone a day before and a day after the time
\* local, read as if it were an instant: the offsets in force around it
OffsetsAround(local) ==
    {OffsetAt(local - SecPerDay, tz), OffsetAt(local + SecPerDay, tz)}
\* the first instant of the local calendar day y-m-d (m in 1..12): local
\* midnight, or a later hour when the clock skips midnight on that day
StartOfLocalDay(y, m, d) ==
    CHOOSE t \in {DaysFromCivil(y, m, d) * SecPerDay - o :
                      o \in OffsetsAround(DaysFromCivil(y, m, d) * SecPerDay)} :
        /\ LocalDate(t) = [year |-> y, month |-> m, day |-> d]
        /\ IsStartOfLocalDay(t)
\* the offset of the machine's zone at the reference instant
ReferenceOffset == OffsetAt(ArgReference.time, tz)
\* the birth date as the local zone reads it
BirthLocal == LocalDate(ArgBirth.time)
BornOnLeapDay == BirthLocal.month = 2 /\ BirthLocal.day = 29
\* the years a next birthday can fall in
BirthdayYears ==
    LocalDate(ArgReference.time).year .. LocalDate(ArgReference.time).year + 1
\* the call of the example: birth 1990-05-20, reference 2024-05-19
IsMayExample ==
    callArgs = <<DateString(1990, 5, 20, 0), DateString(2024, 5, 19, 0)>>

\* C6 as stated: nextBirthday has the month and day of birthDate and is the
\* earliest such date at or after the reference, a birth on Feb 29 with a
\* target year that is no leap year included; birth 1990-05-20 with reference
\* 2024-05-19 gives 2024-05-20, one day ahead.
C6_SameMonthDayEarliest ==
    (Returned /\ ValidPair) =>
        LET nb == callResult.snapshot.nextBirthday
        IN  /\ IsStartOfLocalDay(nb)
            /\ LocalDate(nb).month = BirthLocal.month
            /\ LocalDate(nb).day = BirthLocal.day
            /\ nb >= ArgReference.time
            /\ \A y \in BirthdayYears :
                   (BirthLocal.day <= DaysInMonth(y, BirthLocal.month)
                    /\ StartOfLocalDay(y, BirthLocal.month, BirthLocal.day)
                           >= ArgReference.time)
                   => nb <= StartOfLocalDay(y, BirthLocal.month, BirthLocal.day)
            /\ IsMayExample =>
                   /\ LocalDate(nb) = [year |-> 2024, month |-> 5, day |-> 20]
                   /\ callResult.snapshot.daysUntilNextBirthday = 1

\* The birthday the code builds in year y: the birth's local month and day,
\* and March 1 for a birth on Feb 29 when y is no leap year.
BirthdayIn(y) ==
    IF BornOnLeapDay /\ ~IsLeapYear(y) THEN StartOfLocalDay(y, 3, 1)
    ELSE StartOfLocalDay(y, BirthLocal.month, BirthLocal.day)

\* The reference is the first instant of the birthday of its year (thisYear),
\* on a day whose midnight the clock skips: the day begins at a later hour.
OpensLateBirthday(reference, thisYear) ==
    /\ reference = thisYear
    /\ LocalTime(reference, tz) % SecPerDay # 0
ReferenceOpensLateBirthday ==
    OpensLateBirthday(ArgReference.time,
                      BirthdayIn(LocalDate(ArgReference.time).year))

\* nb is the earliest of the birthdays thisYear and nextYear (of the
\* reference's year and of the year after it) at or after the reference,
\* and nextYear when the reference opens a late birthday.
EarliestBirthday(nb, reference, thisYear, nextYear) ==
    /\ nb \in {thisYear, nextYear}
    /\ nb >= reference
    /\ ~OpensLateBirthday(reference, thisYear) =>
           /\ thisYear >= reference => nb <= thisYear
           /\ nextYear >= reference => nb <= nextYear
    /\ OpensLateBirthday(reference, thisYear) => nb = nextYear

\* C6 as amended: nextBirthday is the first instant of a local day, the
\* earliest at or after the reference instant that carries the birth's local
\* month and day, where a birth on Feb 29 has its birthday on March 1 in a
\* year that is no leap year.  One case apart: a reference that is itself
\* the first instant of the birthday, on a day that begins after 00:00
\* because the clock skips midnight, gives the birthday of the next year.
\* In the example it is one day ahead: 2024-05-20 in a zone at or east of
\* UTC, and 2024-05-19 local in a zone west of UTC, where the birth string
\* reads as May 19.
C6_EarliestBirthdayWithLeapDayRollover ==
    (Returned /\ ValidPair) =>
        LET nb == callResult.snapshot.nextBirthday
        IN  /\ IsStartOfLocalDay(nb)
            /\ EarliestBirthday(nb, ArgReference.time,
                                BirthdayIn(LocalDate(ArgReference.time).year),
                                BirthdayIn(LocalDate(ArgReference.time).year + 1))
            /\ (~BornOnLeapDay \/ IsLeapYear(LocalDate(nb).year)) =>
                   /\ LocalDate(nb).month = BirthLocal.month
                   /\ LocalDate(nb).day = BirthLocal.day
            /\ (BornOnLeapDay /\ ~IsLeapYear(LocalDate(nb).year)) =>
                   /\ LocalDate(nb).month = 3
                   /\ LocalDate(nb).day = 1
            /\ IsMayExample =>
                   /\ callResult.snapshot.daysUntilNextBirthday = 1
                   /\ LocalDate(nb) =
                        [year |-> 2024, month |-> 5,
                         day |-> IF ReferenceOffset >= 0 THEN 20 ELSE 19]

\* C6's case: a birth on Feb 29 whose next birthday falls in a year that is
\* no leap year.
C6_LeapDayWitness ==
    /\ Returned /\ ValidPair
    /\ BornOnLeapDay
    /\ ~IsLeapYear(LocalDate(callResult.snapshot.nextBirthday).year)

\* the call of the example: birth and reference both 2000-01-01
IsSameDayExample ==
    callArgs = <<DateString(2000, 1, 1, 0), DateString(2000, 1, 1, 0)>>

\* C7 as stated: the call on ("2000-01-01", "2000-01-01") returns years,
\* months, days and totalDays 0, nextBirthday 2001-01-01 and
\* daysUntilNextBirthday 366.
C7_SameDayNextYear ==
    (callResult # Pending /\ IsSameDayExample) =>
        /\ Returned
        /\ callResult.snapshot.years = 0
        /\ callResult.snapshot.months = 0
        /\ callResult.snapshot.days = 0
        /\ callResult.snapshot.totalDays = 0
        /\ LocalDate(callResult.snapshot.nextBirthday)
               = [year |-> 2001, month |-> 1, day |-> 1]
        /\ callResult.snapshot.daysUntilNextBirthday = 366

\* C7 as amended: the call returns years, months, days and totalDays 0.  On
\* a machine on UTC the candidate equals the reference and is kept:
\* nextBirthday is 2000-01-01 itself and daysUntilNextBirthday is 0.  Off UTC
\* the candidate, a local midnight, lies before the reference and the
\* birthday moves a year on, 366 days ahead by the ceiling: to 2001-01-01
\* east of UTC, and to the local 2000-12-31 west of UTC.
C7_SameDayIsBirthdayOnUTC ==
    (callResult # Pending /\ IsSameDayExample) =>
        /\ Returned
        /\ callResult.snapshot.years = 0
        /\ callResult.snapshot.months = 0
        /\ callResult.snapshot.days = 0
        /\ callResult.snapshot.totalDays = 0
        /\ ReferenceOffset = 0 =>
               /\ callResult.snapshot.nextBirthday = ArgReference.time
               /\ LocalDate(callResult.snapshot.nextBirthday)
                      = [year |-> 2000, month |-> 1, day |-> 1]
               /\ callResult.snapshot.daysUntilNextBirthday = 0
        /\ ReferenceOffset > 0 =>
               /\ LocalDate(callResult.snapshot.nextBirthday)
                      = [year |-> 2001, month |-> 1, day |-> 1]
               /\ callResult.snapshot.daysUntilNextBirthday = 366
        /\ ReferenceOffset < 0 =>
               /\ LocalDate(callResult.snapshot.nextBirthday)
                      = [year |-> 2000, month |-> 12, day |-> 31]
               /\ callResult.snapshot.daysUntilNextBirthday = 366

\* C7's case: the call of the example has returned on a machine on UTC.
C7_SameDayWitness ==
    /\ Returned
    /\ IsSameDayExample
    /\ tz = "UTC"

----------------------------------------------------------------------------
(* The claims about generateMilestones, read on the finished call of       *)
(* SpecMilestones.  The catalog order is: 10,000 days, 1,000 weeks, 50     *)
(* years, a billion heartbeats (1e9/115200 days), a gigasecond, 20 million *)
(* minutes.                                                                *)

Generated == milestones # <<>>

\* "the comparison value of milestone i is >= its target", in whole numbers:
\*   totalDays/365.25 >= 50        iff  4 * totalDays >= 50 * 1461
\*   totalDays >= 1e9/115200       iff  9 * totalDays >= 78125
ValueAtLeastTarget(i) ==
    CASE i = 1 -> metrics.totalDays >= 10000
      [] i = 2 -> metrics.totalDays \div 7 >= 1000
      [] i = 3 -> 4 * metrics.totalDays >= 50 * 1461
      [] i = 4 -> 9 * metrics.totalDays >= 78125
      [] i = 5 -> metrics.totalSeconds >= 1000000000
      [] i = 6 -> metrics.totalMinutes >= 20000000

HasEta(ms) == "eta" \in DOMAIN ms

\* C8: for each of the six milestones, status is reached iff the comparison
\* value of its unit is >= its target (else upcoming); eta is present iff
\* the status is upcoming; and an eta that is present is >= 0.
C8_StatusAndEta ==
    Generated =>
        /\ Len(milestones) = 6
        /\ \A i \in 1..6 :
              /\ milestones[i].status \in {"reached", "upcoming"}
              /\ milestones[i].status = "reached" <=> ValueAtLeastTarget(i)
              /\ HasEta(milestones[i]) <=> milestones[i].status = "upcoming"
              /\ HasEta(milestones[i]) =>
                     (milestones[i].eta.num >= 0 /\ milestones[i].eta.den > 0)

\* C8's case: the milestones of exactly 10,000 elapsed days: the first is
\* reached on its target while the half-century is still upcoming.
C8_OnTargetWitness ==
    /\ Generated
    /\ metrics.totalDays = 10000
    /\ milestones[1].status = "reached"
    /\ milestones[3].status = "upcoming"

\* the whole number e is the eta of milestone i
EtaIs(i, e) == milestones[i].eta.num = e * milestones[i].eta.den

\* C9: the eta of an upcoming milestone is its target minus the current
\* value in its own unit (days, weeks, seconds, minutes; ninths of a day for
\* the heartbeats, whose target is 78125/9 days), and for the years
\* milestone the whole days ceil((50 - totalDays/365.25) * 365.25), the
\* least n with n >= 18262.5 - totalDays.  With totalDays = 8000 the first
\* milestone is upcoming with eta 2000; with 12000 it is reached.
C9_EtaIsTargetMinusValue ==
    Generated =>
        /\ milestones[1].status = "upcoming" => EtaIs(1, 10000 - metrics.totalDays)
        /\ milestones[2].status = "upcoming" =>
               EtaIs(2, 1000 - metrics.totalDays \div 7)
        /\ milestones[3].status = "upcoming" =>
               \E n \in 1..18263 :
                   /\ EtaIs(3, n)
                   /\ 4 * n >= 50 * 1461 - 4 * metrics.totalDays
                   /\ 4 * (n - 1) < 50 * 1461 - 4 * metrics.totalDays
        /\ milestones[4].status = "upcoming" =>
               milestones[4].eta.num * 9
                   = (78125 - 9 * metrics.totalDays) * milestones[4].eta.den
        /\ milestones[5].status = "upcoming" =>
               EtaIs(5, 1000000000 - metrics.totalSeconds)
        /\ milestones[6].status = "upcoming" =>
               EtaIs(6, 20000000 - metrics.totalMinutes)
        /\ metrics.totalDays = 8000 =>
               (milestones[1].status = "upcoming" /\ EtaIs(1, 2000))
        /\ metrics.totalDays = 12000 => milestones[1].status = "reached"

\* C9's case: the milestones of 8000 elapsed days: the 1,000 weeks are
\* reached (1142 weeks) and the other five are upcoming, each with an eta.
C9_EightThousandDaysWitness ==
    /\ Generated
    /\ metrics.totalDays = 8000
    /\ milestones[2].status = "reached"
    /\ \A i \in {1, 3, 4, 5, 6} :
           milestones[i].status = "upcoming" /\ milestones[i].eta.num > 0

----------------------------------------------------------------------------
(* The claims about the Page, read on Spec.                                *)

\* C10: after any sequence of changes of the two inputs, what the page
\* shows (snapshot or error) is what a fresh call for the current
\* (birthDate, referenceDate) gives: nothing of earlier inputs or results
\* remains in it.
C10_DisplayMatchesFreshCall ==
    /\ memoDeps = <<birthDate, referenceDate>>
    /\ (birthDate = EmptyString) => memoValue = [snapshot |-> Null, error |-> Null]
    /\ (birthDate # EmptyString) =>
          LET fresh == calculateAge(birthDate, referenceDate, tz)
          IN  IF fresh.outcome = "returned"
              THEN memoValue = [snapshot |-> fresh.snapshot, error |-> Null]
              ELSE memoValue = [snapshot |-> Null, error |-> [message |-> fresh.message]]

\* C10's case: a snapshot of a positive age is shown, for a birth date that
\* was entered after the page mounted (it mounts with the field empty).
C10_RecomputedWitness ==
    /\ memoValue.snapshot # Null
    /\ birthDate # EmptyString
    /\ referenceDate # EmptyString
    /\ memoValue.snapshot.years > 0

\* what the page renders: the error paragraph ({error ? ...}) and the
\* snapshot panels ({snapshot ? ...})
ErrorShown == memoValue.error # Null
SnapshotShown == memoValue.snapshot # Null

\* C11: in every reachable state of the page, an empty birth-date field
\* shows neither a snapshot nor an error, whatever the reference-date field
\* holds; a birth-date field that is not empty shows exactly one of the two.
C11_PlaceholderOrExactlyOne ==
    /\ (birthDate = EmptyString) => (~SnapshotShown /\ ~ErrorShown)
    /\ (birthDate # EmptyString) => (SnapshotShown <=> ~ErrorShown)
    /\ ~(SnapshotShown /\ ErrorShown)

\* C11's case: the birth-date field is empty and the reference-date field
\* has been emptied too (the page mounts with today's date in it); the call
\* on these two strings would throw, and the page shows the placeholder.
C11_EmptyFieldsWitness ==
    /\ birthDate = EmptyString
    /\ referenceDate = EmptyString
    /\ calculateAge(birthDate, referenceDate, tz).outcome = "threw"
    /\ ~SnapshotShown /\ ~ErrorShown

----------------------------------------------------------------------------
(* The claim about the milestones over time, read on SpecTimeline:         *)
(* milestones are those of the earlier reference date r1, and              *)
(* callResult.snapshot.milestones those of the later one, r2.              *)

Advanced == milestones # <<>>
LaterMilestones == callResult.snapshot.milestones
\* eta a <= eta b, as fractions
EtaLeq(a, b) == a.num * b.den <= b.num * a.den

\* C12: for one birth date and reference dates r1 <= r2, a milestone
\* reached at r1 is reached at r2, and a milestone upcoming at both has an
\* eta at r2 that is no larger than at r1.
C12_MilestonesNeverGoBack ==
    Advanced =>
        /\ callResult.outcome = "returned"
        /\ \A i \in 1..6 :
              /\ milestones[i].status = "reached" =>
                     LaterMilestones[i].status = "reached"
              /\ (milestones[i].status = "upcoming"
                  /\ LaterMilestones[i].status = "upcoming") =>
                     EtaLeq(LaterMilestones[i].eta, milestones[i].eta)

\* C12's case: between r1 and r2 the gigasecond went from upcoming to
\* reached, the 10,000 days stayed reached, and the half-century stayed
\* upcoming with a smaller eta.
C12_CrossedTargetWitness ==
    /\ Advanced
    /\ milestones[1].status = "reached" /\ LaterMilestones[1].status = "reached"
    /\ milestones[5].status = "upcoming" /\ LaterMilestones[5].status = "reached"
    /\ milestones[3].status = "upcoming" /\ LaterMilestones[3].status = "upcoming"
    /\ LaterMilestones[3].eta.num < milestones[3].eta.num

====
